---------------------------- MODULE Spec2Model ----------------------------
(***************************************************************************)
(* SuperCourier mini ETL pipeline (src/de-code-snippet.py).                *)
(*                                                                         *)
(* The module models run_pipeline and the stages it calls: the two data    *)
(* generators, the extraction, the four enrichment stages of               *)
(* transform_data, save_results and the summary statistics.                *)
(*                                                                         *)
(* Python floats are IEEE-754 binary64 values.  They are modelled exactly: *)
(* a float is a 53 bit significand and a binary exponent, and every        *)
(* product and sum is rounded to nearest, ties to even, as the hardware    *)
(* does.  Significands do not fit TLC's 32 bit integers, so they are kept  *)
(* as little-endian sequences of 13 bit limbs.                             *)
(***************************************************************************)
EXTENDS Integers, Sequences, FiniteSets, TLC

-----------------------------------------------------------------------------
(* Natural numbers of any size: little-endian limb sequences, no leading   *)
(* zero limb; the empty sequence is 0.                                     *)

LimbBits == 13
Base == 2 ^ LimbBits

Max(a, b) == IF a >= b THEN a ELSE b
Min(a, b) == IF a <= b THEN a ELSE b

RECURSIVE Trim(_)
Trim(a) ==
    IF a = <<>> THEN a
    ELSE IF a[Len(a)] = 0 THEN Trim(SubSeq(a, 1, Len(a) - 1)) ELSE a

\* Carry propagation over column sums.
RECURSIVE Carry(_, _)
Carry(cols, c) ==
    IF cols = <<>>
    THEN IF c = 0 THEN <<>> ELSE <<c % Base>> \o Carry(<<>>, c \div Base)
    ELSE LET t == Head(cols) + c
         IN  <<t % Base>> \o Carry(Tail(cols), t \div Base)

Limb(a, k) == IF k <= Len(a) THEN a[k] ELSE 0

BigFromNat(n) == Trim(Carry(<<n>>, 0))

RECURSIVE BigToNat(_)
BigToNat(a) == IF a = <<>> THEN 0 ELSE Head(a) + Base * BigToNat(Tail(a))

BigAdd(a, b) ==
    Trim(Carry([k \in 1..Max(Len(a), Len(b)) |-> Limb(a, k) + Limb(b, k)], 0))

RECURSIVE Column(_, _, _, _)
Column(a, b, k, i) ==
    IF i > Min(Len(a), k) THEN 0
    ELSE a[i] * b[k + 1 - i] + Column(a, b, k, i + 1)

BigMul(a, b) ==
    IF a = <<>> \/ b = <<>> THEN <<>>
    ELSE Trim(Carry([k \in 1..(Len(a) + Len(b) - 1) |->
                        Column(a, b, k, Max(1, k + 1 - Len(b)))], 0))

MulSmall(a, m) == Trim(Carry([k \in 1..Len(a) |-> a[k] * m], 0))

\* Quotient and remainder of a by a small divisor, most significant limb first.
RECURSIVE DivSmall(_, _)
DivSmall(a, d) ==
    IF a = <<>> THEN [q |-> <<>>, r |-> 0]
    ELSE LET hi == DivSmall(Tail(a), d)
             t  == hi.r * Base + Head(a)
         IN  [q |-> <<t \div d>> \o hi.q, r |-> t % d]

\* -1, 0, 1 as a < b, a = b, a > b.
RECURSIVE BigCmp(_, _)
BigCmp(a, b) ==
    IF Len(a) # Len(b) THEN (IF Len(a) < Len(b) THEN -1 ELSE 1)
    ELSE IF a = <<>> THEN 0
    ELSE IF a[Len(a)] # b[Len(b)] THEN (IF a[Len(a)] < b[Len(b)] THEN -1 ELSE 1)
    ELSE BigCmp(SubSeq(a, 1, Len(a) - 1), SubSeq(b, 1, Len(b) - 1))

RECURSIVE NatBits(_)
NatBits(n) == IF n = 0 THEN 0 ELSE 1 + NatBits(n \div 2)

BitLen(a) == IF a = <<>> THEN 0 ELSE LimbBits * (Len(a) - 1) + NatBits(a[Len(a)])

ShiftLeft(a, n) ==
    IF a = <<>> THEN a
    ELSE [k \in 1..(n \div LimbBits) |-> 0] \o MulSmall(a, 2 ^ (n % LimbBits))

ShiftRight(a, n) ==
    LET w == n \div LimbBits
        r == n % LimbBits
    IN  IF w >= Len(a) THEN <<>>
        ELSE Trim([k \in 1..(Len(a) - w) |->
                     (a[k + w] \div (2 ^ r))
                     + (Limb(a, k + w + 1) % (2 ^ r)) * (2 ^ (LimbBits - r))])

\* Bit i of a, bit 0 the least significant.
TestBit(a, i) == (Limb(a, (i \div LimbBits) + 1) \div (2 ^ (i % LimbBits))) % 2

\* Whether any of the n least significant bits of a is set.
LowBitsSet(a, n) ==
    \/ \E k \in 1..Min(n \div LimbBits, Len(a)) : a[k] # 0
    \/ Limb(a, (n \div LimbBits) + 1) % (2 ^ (n % LimbBits)) # 0

-----------------------------------------------------------------------------
(* Python float: IEEE-754 binary64, positive normal values only (every     *)
(* float the pipeline computes lies between 0.8 and a few thousand).       *)
(* [m |-> significand, e |-> exponent] stands for m * 2^e with             *)
(* 2^52 <= m < 2^53.                                                       *)

MantBits == 53

\* n * 2^e rounded to the nearest float, ties to even.
RoundBig(n, e) ==
    LET L == BitLen(n)
    IN  IF L <= MantBits
        THEN [m |-> ShiftLeft(n, MantBits - L), e |-> e - (MantBits - L)]
        ELSE LET s  == L - MantBits
                 q  == ShiftRight(n, s)
                 up == /\ TestBit(n, s - 1) = 1
                       /\ (LowBitsSet(n, s - 1) \/ TestBit(q, 0) = 1)
                 q1 == IF up THEN BigAdd(q, <<1>>) ELSE q
             IN  IF BitLen(q1) > MantBits
                 THEN [m |-> ShiftRight(q1, 1), e |-> e + s + 1]
                 ELSE [m |-> q1, e |-> e + s]

\* float(n) of a positive int.
FromInt(n) == RoundBig(BigFromNat(n), 0)

\* The float a decimal literal num/den denotes (correctly rounded).  The
\* quotient is taken with 70 extra bits and a sticky bit for the remainder.
Literal(num, den) ==
    LET d == DivSmall(ShiftLeft(BigFromNat(num), 70), den)
        q == Trim(d.q)
    IN  IF d.r = 0 THEN RoundBig(q, -70)
        ELSE RoundBig(BigAdd(ShiftLeft(q, 1), <<1>>), -71)

\* x * y
FMul(x, y) == RoundBig(BigMul(x.m, y.m), x.e + y.e)

\* x + y
FAdd(x, y) ==
    LET e == Min(x.e, y.e)
    IN  RoundBig(BigAdd(ShiftLeft(x.m, x.e - e), ShiftLeft(y.m, y.e - e)), e)

\* x > a for a float x and an int a >= 0 (exact: Python compares float
\* and int by value).
FGtInt(x, a) ==
    IF x.e >= 0 THEN BigCmp(ShiftLeft(x.m, x.e), BigFromNat(a)) = 1
    ELSE BigCmp(x.m, ShiftLeft(BigFromNat(a), -x.e)) = 1

\* round(x) to the nearest integer, ties to even (numpy's rint), as an int.
FRint(x) ==
    IF x.e >= 0 THEN BigToNat(ShiftLeft(x.m, x.e))
    ELSE LET s  == -x.e
             q  == BigToNat(ShiftRight(x.m, s))
             up == /\ TestBit(x.m, s - 1) = 1
                   /\ (LowBitsSet(x.m, s - 1) \/ q % 2 = 1)
         IN  IF up THEN q + 1 ELSE q

-----------------------------------------------------------------------------
(* datetime: [year, month, day, hour, minute, second], the proleptic       *)
(* Gregorian calendar of Python's datetime module.  The clock is read to   *)
(* the second.                                                             *)

IsLeap(y) == y % 4 = 0 /\ (y % 100 # 0 \/ y % 400 = 0)

DaysInMonth(y, m) ==
    IF m = 2 THEN (IF IsLeap(y) THEN 29 ELSE 28)
    ELSE IF m \in {4, 6, 9, 11} THEN 30 ELSE 31

DaysBeforeYear(y) ==
    (y - 1) * 365 + (y - 1) \div 4 - (y - 1) \div 100 + (y - 1) \div 400

RECURSIVE DaysBeforeMonth(_, _)
DaysBeforeMonth(y, m) ==
    IF m = 1 THEN 0 ELSE DaysBeforeMonth(y, m - 1) + DaysInMonth(y, m - 1)

\* date.toordinal(): 0001-01-01 is day 1.
ToOrdinal(y, m, d) == DaysBeforeYear(y) + DaysBeforeMonth(y, m) + d

RECURSIVE MonthOfYearDay(_, _, _)
MonthOfYearDay(y, m, n) ==
    IF n < DaysInMonth(y, m) THEN [month |-> m, day |-> n + 1]
    ELSE MonthOfYearDay(y, m + 1, n - DaysInMonth(y, m))

\* date.fromordinal(): the 400/100/4/1 year cycles of datetime._ord2ymd.
FromOrdinal(ord) ==
    LET n    == ord - 1
        n400 == n \div 146097
        r400 == n % 146097
        n100 == r400 \div 36524
        r100 == r400 % 36524
        n4   == r100 \div 1461
        r4   == r100 % 1461
        n1   == r4 \div 365
        r1   == r4 % 365
        y    == n400 * 400 + n100 * 100 + n4 * 4 + n1 + 1
    IN  IF n1 = 4 \/ n100 = 4
        THEN [year |-> y - 1, month |-> 12, day |-> 31]
        ELSE LET md == MonthOfYearDay(y, 1, r1)
             IN  [year |-> y, month |-> md.month, day |-> md.day]

SecondsPerDay == 24 * 3600

SecondOfDay(t) == t.hour * 3600 + t.minute * 60 + t.second

\* datetime + timedelta(days, seconds)
AddDelta(t, days, seconds) ==
    LET total == SecondOfDay(t) + seconds
        ord   == ToOrdinal(t.year, t.month, t.day) + days + total \div SecondsPerDay
        sod   == total % SecondsPerDay
        ymd   == FromOrdinal(ord)
    IN  [year |-> ymd.year, month |-> ymd.month, day |-> ymd.day,
         hour |-> sod \div 3600, minute |-> (sod % 3600) \div 60,
         second |-> sod % 60]

\* t1 <= t2
DateTimeLeq(t1, t2) ==
    LET o1 == ToOrdinal(t1.year, t1.month, t1.day)
        o2 == ToOrdinal(t2.year, t2.month, t2.day)
    IN  o1 < o2 \/ (o1 = o2 /\ SecondOfDay(t1) <= SecondOfDay(t2))

DayNames ==
    <<"Monday", "Tuesday", "Wednesday", "Thursday", "Friday", "Saturday", "Sunday">>

\* Series.dt.day_name(): weekday() is (toordinal() + 6) % 7, Monday 0.
DayName(t) == DayNames[((ToOrdinal(t.year, t.month, t.day) + 6) % 7) + 1]

-----------------------------------------------------------------------------
(* Text: a str is a sequence of one-character strings.                     *)

DigitChars == <<"0", "1", "2", "3", "4", "5", "6", "7", "8", "9">>

DigitChar(d) == DigitChars[d + 1]

IsDigit(c) == \E d \in 0..9 : DigitChars[d + 1] = c

DigitValue(c) == CHOOSE d \in 0..9 : DigitChars[d + 1] = c

\* str(n) of an int n >= 0: decimal, no padding.
RECURSIVE Str(_)
Str(n) == IF n < 10 THEN <<DigitChar(n)>> ELSE Str(n \div 10) \o <<DigitChar(n % 10)>>

\* %m, %d, %H, %M, %S (width 2) and %Y (width 4): zero padded decimal.
RECURSIVE Padded(_, _)
Padded(n, width) ==
    IF width = 0 THEN <<>> ELSE Padded(n \div 10, width - 1) \o <<DigitChar(n % 10)>>

\* strftime('%Y-%m-%d')
FormatDate(t) ==
    Padded(t.year, 4) \o <<"-">> \o Padded(t.month, 2) \o <<"-">> \o Padded(t.day, 2)

\* strftime('%Y-%m-%d %H:%M:%S')
FormatDateTime(t) ==
    FormatDate(t) \o <<" ">> \o Padded(t.hour, 2) \o <<":">> \o Padded(t.minute, 2)
        \o <<":">> \o Padded(t.second, 2)

RECURSIVE ParseNat(_)
ParseNat(s) ==
    IF s = <<>> THEN 0 ELSE 10 * ParseNat(SubSeq(s, 1, Len(s) - 1)) + DigitValue(s[Len(s)])

\* Whether pd.to_datetime accepts the text: here, text of the shape
\* YYYY-MM-DD HH:MM:SS naming a date and time that exist.
IsDateTimeText(s) ==
    /\ Len(s) = 19
    /\ \A i \in 1..19 :
          IF i \in {5, 8} THEN s[i] = "-"
          ELSE IF i = 11 THEN s[i] = " "
          ELSE IF i \in {14, 17} THEN s[i] = ":"
          ELSE IsDigit(s[i])
    /\ LET y == ParseNat(SubSeq(s, 1, 4))
           m == ParseNat(SubSeq(s, 6, 7))
           d == ParseNat(SubSeq(s, 9, 10))
       IN  /\ y >= 1
           /\ m \in 1..12
           /\ d >= 1
           /\ d <= DaysInMonth(y, m)
    /\ ParseNat(SubSeq(s, 12, 13)) <= 23
    /\ ParseNat(SubSeq(s, 15, 16)) <= 59
    /\ ParseNat(SubSeq(s, 18, 19)) <= 59

\* pd.to_datetime of a text that IsDateTimeText accepts.
ParseDateTime(s) ==
    [year   |-> ParseNat(SubSeq(s, 1, 4)),
     month  |-> ParseNat(SubSeq(s, 6, 7)),
     day    |-> ParseNat(SubSeq(s, 9, 10)),
     hour   |-> ParseNat(SubSeq(s, 12, 13)),
     minute |-> ParseNat(SubSeq(s, 15, 16)),
     second |-> ParseNat(SubSeq(s, 18, 19))]

-----------------------------------------------------------------------------
(* The program's data.                                                     *)

\* Python's None: a column value that is null, a file that was not written.
None == "None"

package_types == <<"Small", "Medium", "Large", "X-Large", "Special">>
delivery_zones == <<"Urban", "Suburban", "Rural", "Industrial", "Shopping Center">>
conditions == <<"Sunny", "Cloudy", "Rainy", "Windy", "Snowy", "Foggy">>

Range(f) == {f[i] : i \in DOMAIN f}

\* The columns of the deliveries table, in the order of CREATE TABLE.
SourceColumns ==
    <<"delivery_id", "pickup_datetime", "package_type", "delivery_zone", "recipient_id">>

\* dict.get(key, default)
DictGet(d, key, default) == IF key \in DOMAIN d THEN d[key] ELSE default

\* The float literals of calculate_delivery_time, each evaluated once.
f_30 == FromInt(30)
f_0_8 == Literal(8, 10)
f_0_9 == Literal(9, 10)
f_1_0 == Literal(10, 10)
f_1_2 == Literal(12, 10)
f_1_3 == Literal(13, 10)
f_1_4 == Literal(14, 10)

package_factors ==
    ("Small" :> Literal(10, 10)) @@ ("Medium" :> Literal(12, 10))
    @@ ("Large" :> Literal(15, 10)) @@ ("X-Large" :> Literal(20, 10))
    @@ ("Special" :> Literal(25, 10))

zone_factors ==
    ("Urban" :> Literal(12, 10)) @@ ("Suburban" :> Literal(10, 10))
    @@ ("Rural" :> Literal(13, 10)) @@ ("Industrial" :> Literal(9, 10))
    @@ ("Shopping Center" :> Literal(14, 10))

weather_factors ==
    ("Sunny" :> Literal(100, 100)) @@ ("Cloudy" :> Literal(105, 100))
    @@ ("Rainy" :> Literal(120, 100)) @@ ("Snowy" :> Literal(180, 100))
    @@ ("Windy" :> Literal(110, 100)) @@ ("Foggy" :> Literal(130, 100))

\* X-Large given the factor of Large.
package_multiplier_xlarge_as_large(row) ==
    IF row.package_type = "X-Large" THEN package_factors["Large"]
    ELSE DictGet(package_factors, row.package_type, f_1_0)

package_multiplier(row) == DictGet(package_factors, row.package_type, f_1_0)

zone_multiplier(row) == DictGet(zone_factors, row.delivery_zone, f_1_0)

\* A default other than 1.0.
weather_multiplier_default_1_2(row) ==
    DictGet(weather_factors, row.WeatherCondition, f_1_2)

weather_multiplier(row) == DictGet(weather_factors, row.WeatherCondition, f_1_0)

peak_multiplier(row) ==
    IF 7 <= row.hour /\ row.hour <= 9 THEN f_1_3
    ELSE IF 17 <= row.hour /\ row.hour <= 19 THEN f_1_4
    ELSE f_1_0

day_multiplier(row) ==
    IF row.weekday \in {"Monday", "Friday"} THEN f_1_2
    ELSE IF row.weekday \in {"Saturday", "Sunday"} THEN f_0_9
    ELSE f_1_0

\* 30 + distance * 0.8
base_time(distance) == FAdd(f_30, FMul(FromInt(distance), f_0_8))

adjusted_time(row) ==
    FMul(FMul(FMul(FMul(FMul(base_time(row.distance), package_multiplier(row)),
                             zone_multiplier(row)),
                        weather_multiplier(row)),
                   peak_multiplier(row)),
         day_multiplier(row))

delay_threshold(row) == FMul(adjusted_time(row), f_1_2)

\* No status for a record without weather.
calculate_delivery_time_null(row) ==
    IF row.WeatherCondition = None THEN None
    ELSE IF FGtInt(delay_threshold(row), row.actual_delivery_time) THEN "On-time"
    ELSE "Delayed"

calculate_delivery_time(row) ==
    IF FGtInt(delay_threshold(row), row.actual_delivery_time) THEN "On-time" ELSE "Delayed"

\* The hour key padded to two digits.
get_weather_padded(table, timestamp) ==
    LET date_str == FormatDate(timestamp)
        hour_str == Padded(timestamp.hour, 2)
    IN  IF date_str \in DOMAIN table /\ hour_str \in DOMAIN table[date_str]
        THEN table[date_str][hour_str]
        ELSE None

\* get_weather: the condition, or None with a warning, for one timestamp.
get_weather(table, timestamp) ==
    LET date_str == FormatDate(timestamp)
        hour_str == Str(timestamp.hour)
    IN  IF date_str \in DOMAIN table /\ hour_str \in DOMAIN table[date_str]
        THEN table[date_str][hour_str]
        ELSE None

\* The date parsed, the time of day dropped.
to_datetime_midnight(cell) ==
    IF cell.dtype = "datetime64" THEN cell
    ELSE [dtype |-> "datetime64",
          value |-> [ParseDateTime(cell.value) EXCEPT !.hour = 0, !.minute = 0,
                                                       !.second = 0]]

\* pd.to_datetime of one cell: text is parsed, a datetime is kept.
to_datetime(cell) ==
    IF cell.dtype = "datetime64" THEN cell
    ELSE [dtype |-> "datetime64", value |-> ParseDateTime(cell.value)]

CanConvert(cell) == cell.dtype = "datetime64" \/ IsDateTimeText(cell.value)

-----------------------------------------------------------------------------
(* Bounds and the inputs drawn.                                            *)

\* Deliveries per run (the program generates 1000).
NumDeliveries == 2

\* Seconds that may pass between the clock readings of the two generators.
MaxElapsed == 1

\* timedelta(days=90)
WindowDays == 90

\* random.randint(1, 100)
MaxDistance == 100

DateTime(y, mo, d, h, mi, sec) ==
    [year |-> y, month |-> mo, day |-> d, hour |-> h, minute |-> mi, second |-> sec]

\* Values datetime.now() returns when the run starts.
ClockSamples == {DateTime(2024, 5, 30, 12, 0, 0), DateTime(2024, 5, 29, 23, 59, 59)}

\* What create_sqlite_database draws for one delivery: the offset into the
\* window in seconds, the package type, the zone and the recipient.
GenSamples ==
    {[seconds |-> 0, package_type |-> "Small", delivery_zone |-> "Urban",
      recipient_id |-> 1],
     [seconds |-> 45 * SecondsPerDay + 8 * 3600, package_type |-> "Medium",
      delivery_zone |-> "Rural", recipient_id |-> 50],
     [seconds |-> WindowDays * SecondsPerDay, package_type |-> "Special",
      delivery_zone |-> "Industrial", recipient_id |-> 100]}

\* What generate_weather_data draws for a day: one condition up to an hour,
\* another from it on.
WeatherDraws ==
    {[first |-> "Sunny", change |-> 24, second |-> "Sunny"],
     [first |-> "Rainy", change |-> 12, second |-> "Snowy"]}

\* Draws of random.randint(1, 100) and np.random.uniform(0.9, 1.5) in a
\* whole run of the pipeline and in transform_data on its own.
PipelineDistances == {1, MaxDistance}
f_1_5 == Literal(150, 100)
PipelineUniforms == {f_1_5}
TransformDistances == {25}
TransformUniforms == {f_0_9, f_1_5}

-----------------------------------------------------------------------------
(* The state.                                                              *)

VARIABLES
    pc,            \* the next step of run_pipeline, "raised" with an exception
                   \* in flight, "done" when it returned
    stage,         \* the next stage of transform_data
    clock,         \* the last value datetime.now() returned
    db,            \* the rows of the deliveries table
    weather_data,  \* date text -> hour text -> condition
    df,            \* the DataFrame's rows
    columns,       \* the DataFrame's columns, in order
    csv,           \* the rows written to deliveries.csv, None before
    log,           \* what the logger wrote
    ret,           \* what run_pipeline returned, None before
    error          \* the exception raised, None without

vars == <<pc, stage, clock, db, weather_data, df, columns, csv, log, ret, error>>

Info(msg) == [level |-> "INFO", msg |-> msg]
Warning(msg) == [level |-> "WARNING", msg |-> msg]
Error(msg) == [level |-> "ERROR", msg |-> msg]

HasColumns(cols) == \A c \in Range(cols) : c \in Range(columns)

\* df[name] = ...: a new column goes last, an existing one keeps its place.
RECURSIVE WithColumns(_, _)
WithColumns(cols, new) ==
    IF new = <<>> THEN cols
    ELSE WithColumns(IF Head(new) \in Range(cols) THEN cols ELSE Append(cols, Head(new)),
                     Tail(new))

\* An exception leaves the function: nothing else changes.
Raise(exc, logged) ==
    /\ pc' = "raised"
    /\ error' = exc
    /\ log' = log \o logged
    /\ UNCHANGED <<stage, clock, db, weather_data, df, columns, csv, ret>>

-----------------------------------------------------------------------------
(* run_pipeline, step 1: the data sources.                                 *)

Init ==
    /\ pc = "run_pipeline"
    /\ stage = 1
    /\ clock \in ClockSamples
    /\ db = <<>>
    /\ weather_data = << >>
    /\ df = <<>>
    /\ columns = <<>>
    /\ csv = None
    /\ log = <<>>
    /\ ret = None
    /\ error = None

Start ==
    /\ pc = "run_pipeline"
    /\ pc' = "create_sqlite_database"
    /\ log' = Append(log, Info("Starting SuperCourier ETL pipeline"))
    /\ UNCHANGED <<stage, clock, db, weather_data, df, columns, csv, ret, error>>

\* The deliveries create_sqlite_database inserts for the draws.
GeneratedDeliveries(end_date, draws) ==
    LET start_date == AddDelta(end_date, -WindowDays, 0)
    IN  [i \in 1..NumDeliveries |->
            [delivery_id     |-> i,
             pickup_datetime |-> FormatDateTime(AddDelta(start_date, 0, draws[i].seconds)),
             package_type    |-> draws[i].package_type,
             delivery_zone   |-> draws[i].delivery_zone,
             recipient_id    |-> draws[i].recipient_id]]

CreateSqliteDatabase ==
    /\ pc = "create_sqlite_database"
    /\ \E io_ok \in BOOLEAN, draws \in [1..NumDeliveries -> GenSamples] :
          IF io_ok
          THEN /\ db' = GeneratedDeliveries(clock, draws)
               /\ pc' = "generate_weather_data"
               /\ log' = log \o <<Info("Creating SQLite database..."),
                                  Info("Database created")>>
               /\ UNCHANGED <<stage, clock, weather_data, df, columns, csv, ret, error>>
          ELSE Raise("sqlite3.Error", <<Info("Creating SQLite database...")>>)

\* The dates of the while loop: the k-th pass has current_date k days after
\* its first value, and the loop runs while current_date <= end_date.
WeatherDates(current_date, end_date) ==
    LET span == ToOrdinal(end_date.year, end_date.month, end_date.day)
                - ToOrdinal(current_date.year, current_date.month, current_date.day)
    IN  {FormatDate(AddDelta(current_date, k, 0)) :
            k \in {j \in 0..Max(span, 0) :
                      DateTimeLeq(AddDelta(current_date, j, 0), end_date)}}

GeneratedWeather(end_date, draw) ==
    LET start_date == AddDelta(end_date, -WindowDays, 0)
    IN  [date_str \in WeatherDates(start_date, end_date) |->
            [hour_str \in {Str(hour) : hour \in 0..23} |->
                IF ParseNat(hour_str) < draw.change THEN draw.first ELSE draw.second]]

GenerateWeatherData ==
    /\ pc = "generate_weather_data"
    /\ \E elapsed \in 0..MaxElapsed, io_ok \in BOOLEAN, draw \in WeatherDraws :
          LET end_date == AddDelta(clock, 0, elapsed)
          IN  IF io_ok
              THEN /\ clock' = end_date
                   /\ weather_data' = GeneratedWeather(end_date, draw)
                   /\ pc' = "extract_sqlite_data"
                   /\ log' = log \o <<Info("Generating weather data..."),
                                      Info("Weather data generated")>>
                   /\ UNCHANGED <<stage, db, df, columns, csv, ret, error>>
              ELSE Raise("OSError", <<Info("Generating weather data...")>>)

-----------------------------------------------------------------------------
(* Step 2: extraction.                                                     *)

\* A row of the DataFrame read from a row of the table: the timestamp is
\* text (dtype object), the columns of the later stages do not exist yet.
FrameRow(r) ==
    [delivery_id          |-> r.delivery_id,
     pickup_datetime      |-> [dtype |-> "object", value |-> r.pickup_datetime],
     package_type         |-> r.package_type,
     delivery_zone        |-> r.delivery_zone,
     recipient_id         |-> r.recipient_id,
     weekday              |-> None,
     hour                 |-> None,
     WeatherCondition     |-> None,
     distance             |-> None,
     actual_delivery_time |-> None,
     status               |-> None]

ExtractSqliteData ==
    /\ pc = "extract_sqlite_data"
    /\ \E io_ok \in BOOLEAN :
          IF io_ok
          THEN /\ df' = [i \in 1..Len(db) |-> FrameRow(db[i])]
               /\ columns' = SourceColumns
               /\ pc' = "transform_data"
               /\ stage' = 1
               /\ log' = log \o <<Info("Extracting data from SQLite database..."),
                                  Info("Extraction complete")>>
               /\ UNCHANGED <<clock, db, weather_data, csv, ret, error>>
          ELSE Raise("sqlite3.Error", <<Info("Extracting data from SQLite database...")>>)

-----------------------------------------------------------------------------
(* Step 3: transform_data and its four stages.                             *)

\* The scorer called before the simulator.
transform_stages_scoring_early ==
    <<"enrich_with_weekday_and_hour", "enrich_with_weather", "enrich_with_status",
      "enrich_with_random_distance_and_delivery_time">>

\* The calls of transform_data, in order.
transform_stages ==
    <<"enrich_with_weekday_and_hour", "enrich_with_weather",
      "enrich_with_random_distance_and_delivery_time", "enrich_with_status">>

AtStage(name) ==
    /\ pc = "transform_data"
    /\ stage <= Len(transform_stages)
    /\ transform_stages[stage] = name

\* What transform_data logs when it is entered, then the stage's own line.
StageLog(lines) ==
    (IF stage = 1 THEN <<Info("Transforming data...")>> ELSE <<>>) \o lines

\* The stage returned: the next one, or transform_data returns the frame.
StageDone ==
    /\ stage' = stage + 1
    /\ pc' = IF stage = Len(transform_stages) THEN "save_results" ELSE "transform_data"

EnrichWithWeekdayAndHour ==
    /\ AtStage("enrich_with_weekday_and_hour")
    /\ LET logged == StageLog(<<Info("Enriching with weekday and hour of the day...")>>)
       IN  IF ~HasColumns(<<"pickup_datetime">>)
           THEN Raise("KeyError", logged)
           ELSE IF \E i \in 1..Len(df) : ~CanConvert(df[i].pickup_datetime)
           THEN Raise("ValueError", logged)
           ELSE /\ df' = [i \in 1..Len(df) |->
                            LET t == to_datetime(df[i].pickup_datetime)
                            IN  [df[i] EXCEPT !.pickup_datetime = t,
                                              !.weekday = DayName(t.value),
                                              !.hour = t.value.hour]]
                /\ columns' = WithColumns(columns, <<"weekday", "hour">>)
                /\ log' = log \o logged
                /\ StageDone
                /\ UNCHANGED <<clock, db, weather_data, csv, ret, error>>

\* The warnings get_weather logs, one for each row without weather.
RECURSIVE MissingWeather(_, _)
MissingWeather(rows, table) ==
    IF rows = <<>> THEN <<>>
    ELSE (IF get_weather(table, to_datetime(Head(rows).pickup_datetime).value) = None
          THEN <<Warning("Missing weather")>> ELSE <<>>)
         \o MissingWeather(Tail(rows), table)

EnrichWithWeather ==
    /\ AtStage("enrich_with_weather")
    /\ LET logged == StageLog(<<Info("Enriching with weather data...")>>)
       IN  IF ~HasColumns(<<"pickup_datetime">>)
           THEN Raise("KeyError", logged)
           ELSE IF \E i \in 1..Len(df) : ~CanConvert(df[i].pickup_datetime)
           THEN Raise("ValueError", logged)
           ELSE /\ df' = [i \in 1..Len(df) |->
                            LET t == to_datetime(df[i].pickup_datetime)
                            IN  [df[i] EXCEPT !.pickup_datetime = t,
                                              !.WeatherCondition =
                                                  get_weather(weather_data, t.value)]]
                /\ columns' = WithColumns(columns, <<"WeatherCondition">>)
                /\ log' = log \o logged \o MissingWeather(df, weather_data)
                /\ StageDone
                /\ UNCHANGED <<clock, db, weather_data, csv, ret, error>>

\* round(base_time * U) as an int.  Nothing in the stage can fail on a frame
\* that exists, so its except clause (log and raise again) is never entered.
simulated_time(distance, u) == FRint(FMul(base_time(distance), u))

EnrichWithRandomDistanceAndDeliveryTime(Distances, Uniforms) ==
    /\ AtStage("enrich_with_random_distance_and_delivery_time")
    /\ \E ds \in [1..Len(df) -> Distances], us \in [1..Len(df) -> Uniforms] :
          /\ df' = [i \in 1..Len(df) |->
                      [df[i] EXCEPT !.distance = ds[i],
                                    !.actual_delivery_time = simulated_time(ds[i], us[i])]]
          /\ columns' = WithColumns(columns, <<"distance", "actual_delivery_time">>)
          /\ log' = log \o StageLog(<<Info("Adding random distance and delivery time...")>>)
          /\ StageDone
          /\ UNCHANGED <<clock, db, weather_data, csv, ret, error>>

\* The columns calculate_delivery_time reads of a row.
ScorerReads ==
    <<"distance", "package_type", "delivery_zone", "WeatherCondition", "hour",
      "weekday", "actual_delivery_time">>

EnrichWithStatus ==
    /\ AtStage("enrich_with_status")
    /\ IF ~HasColumns(ScorerReads)
       THEN Raise("KeyError", StageLog(<<>>))
       ELSE /\ df' = [i \in 1..Len(df) |->
                        [df[i] EXCEPT !.status = calculate_delivery_time(df[i])]]
            /\ columns' = WithColumns(columns, <<"status">>)
            /\ log' = log \o StageLog(<<>>)
            /\ StageDone
            /\ UNCHANGED <<clock, db, weather_data, csv, ret, error>>

-----------------------------------------------------------------------------
(* Steps 4 and 5: save_results, the statistics, and the except clause.     *)

\* The columns of the output, as the frame names them, in desired_order.
OutputColumns ==
    <<"delivery_id", "pickup_datetime", "weekday", "hour", "package_type", "distance",
      "delivery_zone", "WeatherCondition", "actual_delivery_time", "status">>

OutputRow(r) ==
    <<r.delivery_id, r.pickup_datetime.value, r.weekday, r.hour, r.package_type,
      r.distance, r.delivery_zone, r.WeatherCondition, r.actual_delivery_time, r.status>>

\* save_results catches whatever goes wrong, logs it and returns False;
\* run_pipeline does not look at what it returns.
SaveResults ==
    /\ pc = "save_results"
    /\ \E io_ok \in BOOLEAN :
          IF io_ok /\ HasColumns(OutputColumns)
          THEN /\ csv' = [i \in 1..Len(df) |-> OutputRow(df[i])]
               /\ log' = log \o <<Info("Saving results..."), Info("Results saved")>>
          ELSE /\ csv' = csv
               /\ log' = log \o <<Info("Saving results..."), Error("Error saving results")>>
    /\ pc' = "stats"
    /\ UNCHANGED <<stage, clock, db, weather_data, df, columns, ret, error>>

CountStatus(value) == Cardinality({i \in 1..Len(df) : df[i].status = value})

Stats ==
    /\ pc = "stats"
    /\ IF ~HasColumns(<<"status">>)
       THEN Raise("KeyError", <<>>)
       ELSE /\ log' = log \o
                   <<IF Len(df) > 0
                     THEN [level |-> "INFO", msg |-> "Delivery Status Summary",
                           on_time |-> CountStatus("On-time"),
                           delayed |-> CountStatus("Delayed")]
                     ELSE Warning("No data available to compute statistics."),
                     Info("ETL pipeline completed successfully")>>
            /\ ret' = TRUE
            /\ pc' = "done"
            /\ UNCHANGED <<stage, clock, db, weather_data, df, columns, csv, error>>

\* except Exception as e
HandleException ==
    /\ pc = "raised"
    /\ log' = Append(log, Error("Error during pipeline execution"))
    /\ ret' = FALSE
    /\ pc' = "done"
    /\ UNCHANGED <<stage, clock, db, weather_data, df, columns, csv, error>>

Next ==
    \/ Start
    \/ CreateSqliteDatabase
    \/ GenerateWeatherData
    \/ ExtractSqliteData
    \/ EnrichWithWeekdayAndHour
    \/ EnrichWithWeather
    \/ EnrichWithRandomDistanceAndDeliveryTime(PipelineDistances, PipelineUniforms)
    \/ EnrichWithStatus
    \/ SaveResults
    \/ Stats
    \/ HandleException

Spec == Init /\ [][Next]_vars

-----------------------------------------------------------------------------
(* transform_data on its own, called with any table of deliveries and any  *)
(* weather table: categories no multiplier table knows, timestamps the     *)
(* weather table does not cover or that are no timestamps, hour keys with  *)
(* and without padding.                                                    *)

InputRows ==
    {[pickup_datetime |-> FormatDateTime(DateTime(2024, 3, 1, 5, 30, 0)),
      package_type |-> "Small", delivery_zone |-> "Urban", recipient_id |-> 7],
     [pickup_datetime |-> FormatDateTime(DateTime(2024, 3, 1, 8, 0, 0)),
      package_type |-> "Fragile", delivery_zone |-> "Harbor", recipient_id |-> 7],
     [pickup_datetime |-> FormatDateTime(DateTime(2024, 3, 2, 5, 0, 0)),
      package_type |-> "Special", delivery_zone |-> "Industrial", recipient_id |-> 8],
     [pickup_datetime |-> FormatDateTime(DateTime(2024, 3, 4, 17, 15, 0)),
      package_type |-> "Large", delivery_zone |-> "Industrial", recipient_id |-> 9],
     [pickup_datetime |-> FormatDateTime(DateTime(2024, 2, 30, 5, 0, 0)),
      package_type |-> "Medium", delivery_zone |-> "Rural", recipient_id |-> 9]}

Date20240301 == <<"2", "0", "2", "4", "-", "0", "3", "-", "0", "1">>
Date202431 == <<"2", "0", "2", "4", "-", "3", "-", "1">>

InputTables ==
    {<< >>,
     Date20240301 :> ((<<"5">> :> "Rainy") @@ (<<"8">> :> "Hail")),
     Date20240301 :> (<<"0", "5">> :> "Rainy"),
     (Date20240301 :> ((<<"0", "5">> :> "Sunny") @@ (<<"5">> :> "Snowy")
                       @@ (<<"0", "8">> :> "Foggy")))
        @@ (Date202431 :> (<<"8">> :> "Windy"))}

InitTransform ==
    /\ pc = "transform_data"
    /\ stage = 1
    /\ clock = DateTime(2024, 5, 30, 12, 0, 0)
    /\ db = <<>>
    /\ weather_data \in InputTables
    /\ \E n \in 1..NumDeliveries :
          \E input \in [1..n -> InputRows] :
             df = [i \in 1..n |->
                     FrameRow([delivery_id     |-> i,
                               pickup_datetime |-> input[i].pickup_datetime,
                               package_type    |-> input[i].package_type,
                               delivery_zone   |-> input[i].delivery_zone,
                               recipient_id    |-> input[i].recipient_id])]
    /\ columns = SourceColumns
    /\ csv = None
    /\ log = <<>>
    /\ ret = None
    /\ error = None

NextTransform ==
    \/ EnrichWithWeekdayAndHour
    \/ EnrichWithWeather
    \/ EnrichWithRandomDistanceAndDeliveryTime(TransformDistances, TransformUniforms)
    \/ EnrichWithStatus

SpecTransform == InitTransform /\ [][NextTransform]_vars

-----------------------------------------------------------------------------
(* The last two stages on one delivery that the first two have enriched:   *)
(* every distance the simulator can draw, the ends of the range of U.      *)

\* A row after enrich_with_weekday_and_hour and enrich_with_weather.
EnrichedRow(t, package_type, delivery_zone, condition) ==
    [FrameRow([delivery_id |-> 1, pickup_datetime |-> FormatDateTime(t),
               package_type |-> package_type, delivery_zone |-> delivery_zone,
               recipient_id |-> 1])
       EXCEPT !.pickup_datetime = [dtype |-> "datetime64", value |-> t],
              !.weekday = DayName(t),
              !.hour = t.hour,
              !.WeatherCondition = condition]

\* The weather table a row's condition was looked up in.
TableOf(t, condition) ==
    IF condition = None THEN << >>
    ELSE FormatDate(t) :> (Str(t.hour) :> condition)

EnrichedColumns == SourceColumns \o <<"weekday", "hour", "WeatherCondition">>

SimTimestamps ==
    {DateTime(2024, 3, 2, 12, 0, 0), DateTime(2024, 3, 4, 18, 30, 0)}

InitSim ==
    /\ pc = "transform_data"
    /\ stage = 3
    /\ clock = DateTime(2024, 5, 30, 12, 0, 0)
    /\ db = <<>>
    /\ \E t \in SimTimestamps, package_type \in Range(package_types),
          delivery_zone \in Range(delivery_zones),
          condition \in {"Sunny", "Snowy", None} :
          /\ df = <<EnrichedRow(t, package_type, delivery_zone, condition)>>
          /\ weather_data = TableOf(t, condition)
    /\ columns = EnrichedColumns
    /\ csv = None
    /\ log = <<>>
    /\ ret = None
    /\ error = None

NextSim ==
    \/ EnrichWithRandomDistanceAndDeliveryTime(1..MaxDistance, {f_0_9, f_1_5})
    \/ EnrichWithStatus

SpecSim == InitSim /\ [][NextSim]_vars

-----------------------------------------------------------------------------
(* The scorer on one fully enriched delivery: any category, known or not,  *)
(* any weekday, the hours around the peaks, and an actual delivery time    *)
(* next to the threshold.                                                  *)

\* The threshold in exact arithmetic, as the integer ExactNumerator over
\* ExactDenominator: tenths and hundredths, multiplied out.
Tenths(table, key) == IF key \in DOMAIN table THEN table[key] ELSE 10

ExactPackage ==
    ("Small" :> 10) @@ ("Medium" :> 12) @@ ("Large" :> 15) @@ ("X-Large" :> 20)
    @@ ("Special" :> 25)

ExactZone ==
    ("Urban" :> 12) @@ ("Suburban" :> 10) @@ ("Rural" :> 13) @@ ("Industrial" :> 9)
    @@ ("Shopping Center" :> 14)

\* In hundredths.
ExactWeather ==
    ("Sunny" :> 100) @@ ("Cloudy" :> 105) @@ ("Rainy" :> 120) @@ ("Snowy" :> 180)
    @@ ("Windy" :> 110) @@ ("Foggy" :> 130)

ExactPeak(hour) == IF hour \in 7..9 THEN 13 ELSE IF hour \in 17..19 THEN 14 ELSE 10

ExactDay(weekday) ==
    IF weekday \in {"Monday", "Friday"} THEN 12
    ELSE IF weekday \in {"Saturday", "Sunday"} THEN 9 ELSE 10

\* 1.2 * (30 + 0.8 * distance) * ... in units of 1 / (10^8 * 100)
ExactNumerator(row) ==
    MulSmall(MulSmall(MulSmall(MulSmall(MulSmall(MulSmall(
        BigFromNat(300 + 8 * row.distance),
        Tenths(ExactPackage, row.package_type)),
        Tenths(ExactZone, row.delivery_zone)),
        IF row.WeatherCondition \in DOMAIN ExactWeather
        THEN ExactWeather[row.WeatherCondition] ELSE 100),
        ExactPeak(row.hour)),
        ExactDay(row.weekday)),
        12)

\* a * 10^8
ExactScaled(a) == MulSmall(MulSmall(BigFromNat(a), 10000), 10000)

\* The exact threshold rounded down.
ExactFloor(row) ==
    BigToNat(Trim(DivSmall(Trim(DivSmall(ExactNumerator(row), 10000).q), 10000).q))

\* Every combination of categories, at an hour and a weekday of each
\* multiplier; and every weekday at the hours around the peaks, for some
\* combinations of categories.  March 4, 2024 is a Monday.
ScoreDistances == {1, 25, 50, MaxDistance}
ScoreHours == {6, 7, 9, 10, 16, 17, 19, 20}

ScoreCases ==
    [day : {4, 6, 9}, hour : {8, 10, 18}, distance : ScoreDistances,
     package_type : Range(package_types) \cup {"Fragile"},
     delivery_zone : Range(delivery_zones) \cup {"Harbor"},
     condition : Range(conditions) \cup {None, "Hail"}]
    \cup
    [day : 4..10, hour : ScoreHours, distance : {1, 50, MaxDistance},
     package_type : {"Medium", "Special", "Fragile"},
     delivery_zone : {"Urban", "Industrial"},
     condition : {"Sunny", "Cloudy", None}]

InitScore ==
    /\ pc = "transform_data"
    /\ stage = 4
    /\ clock = DateTime(2024, 5, 30, 12, 0, 0)
    /\ db = <<>>
    /\ \E c \in ScoreCases, over \in {0, 1} :
          LET t   == DateTime(2024, 3, c.day, c.hour, 0, 0)
              row == [EnrichedRow(t, c.package_type, c.delivery_zone, c.condition)
                        EXCEPT !.distance = c.distance]
          IN  /\ df = <<[row EXCEPT !.actual_delivery_time = ExactFloor(row) + over]>>
              /\ weather_data = TableOf(t, c.condition)
    /\ columns = EnrichedColumns \o <<"distance", "actual_delivery_time">>
    /\ csv = None
    /\ log = <<>>
    /\ ret = None
    /\ error = None

NextScore == EnrichWithStatus

SpecScore == InitScore /\ [][NextScore]_vars

-----------------------------------------------------------------------------
(* Properties.                                                             *)

\* transform_data returned the frame.
Transformed == pc = "save_results"

Statuses == {"On-time", "Delayed"}

\* The exact threshold is greater than, equal to or less than a: 1, 0, -1.
ExactCompare(row) ==
    BigCmp(ExactNumerator(row), ExactScaled(row.actual_delivery_time))

\* C1: the scorer returns "On-time" exactly when the threshold
\* 1.2 * (30 + 0.8 * distance) * package * zone * weather * peak * weekday,
\* with the multipliers of the tables, is greater than the actual delivery
\* time, and "Delayed" otherwise.
C1_StatusByFormula ==
    Transformed =>
        \A i \in 1..Len(df) :
            df[i].status = (IF ExactCompare(df[i]) = 1 THEN "On-time" ELSE "Delayed")

\* C2: a delivery whose actual delivery time equals the threshold is
\* "Delayed".
C2_TieIsDelayed ==
    Transformed =>
        \A i \in 1..Len(df) : ExactCompare(df[i]) = 0 => df[i].status = "Delayed"

\* C3: when transform_data has returned, every record's status is "On-time"
\* or "Delayed", whatever its categories and with or without weather, and
\* the scorer raises nothing.
C3_StatusAlwaysSet ==
    /\ Transformed => \A i \in 1..Len(df) : df[i].status \in Statuses
    /\ pc = "raised" => transform_stages[stage] # "enrich_with_status"

C3_Witness ==
    /\ Transformed
    /\ \E i \in 1..Len(df) :
          /\ df[i].WeatherCondition = "Hail"
          /\ df[i].package_type = "Fragile"
          /\ df[i].delivery_zone = "Harbor"
          /\ df[i].status \in Statuses
    /\ \E i \in 1..Len(df) :
          /\ df[i].WeatherCondition = None
          /\ df[i].status \in Statuses

\* The record with each category that no table knows replaced by the
\* category of multiplier 1.0.
Neutral(row) ==
    [row EXCEPT
        !.package_type = IF @ \in Range(package_types) THEN @ ELSE "Small",
        !.delivery_zone = IF @ \in Range(delivery_zones) THEN @ ELSE "Suburban",
        !.WeatherCondition = IF @ \in Range(conditions) THEN @ ELSE "Sunny"]

\* C4: a category that its table does not know, and a missing weather
\* condition, count as the multiplier 1.0: the expected time and the status
\* are those of the record with the multiplier 1.0 in its place.
C4_NeutralFallback ==
    Transformed =>
        \A i \in 1..Len(df) :
            /\ df[i].package_type \notin Range(package_types)
                  => package_multiplier(df[i]) = FromInt(1)
            /\ df[i].delivery_zone \notin Range(delivery_zones)
                  => zone_multiplier(df[i]) = FromInt(1)
            /\ df[i].WeatherCondition \notin Range(conditions)
                  => weather_multiplier(df[i]) = FromInt(1)
            /\ adjusted_time(df[i]) = adjusted_time(Neutral(df[i]))
            /\ df[i].status = calculate_delivery_time(Neutral(df[i]))

C4_Witness ==
    /\ Transformed
    /\ \E i \in 1..Len(df) :
          /\ df[i].WeatherCondition = None
          /\ df[i].package_type = "Fragile"
          /\ df[i].delivery_zone = "Harbor"
          /\ df[i].status = "Delayed"

AllDigits(s) == \A k \in 1..Len(s) : IsDigit(s[k])

\* The key is the date of t written YYYY-MM-DD.
DateKeyIs(key, t) ==
    /\ Len(key) = 10
    /\ key[5] = "-"
    /\ key[8] = "-"
    /\ AllDigits(SubSeq(key, 1, 4) \o SubSeq(key, 6, 7) \o SubSeq(key, 9, 10))
    /\ ParseNat(SubSeq(key, 1, 4)) = t.year
    /\ ParseNat(SubSeq(key, 6, 7)) = t.month
    /\ ParseNat(SubSeq(key, 9, 10)) = t.day

\* The key is the hour in decimal without padding.
HourKeyIs(key, hour) ==
    /\ Len(key) >= 1
    /\ AllDigits(key)
    /\ Len(key) = 1 \/ key[1] # "0"
    /\ ParseNat(key) = hour

\* What the table holds for the date and the hour of t, None if nothing.
Recorded(table, t) ==
    LET dates == {d \in DOMAIN table : DateKeyIs(d, t)}
    IN  IF dates = {} THEN None
        ELSE LET d     == CHOOSE d \in dates : TRUE
                 hours == {h \in DOMAIN table[d] : HourKeyIs(h, t.hour)}
             IN  IF hours = {} THEN None ELSE table[d][CHOOSE h \in hours : TRUE]

\* C5: the weather of a record is the condition under the date key
\* YYYY-MM-DD and the hour key without padding; a date or an hour the table
\* does not hold gives None and raises nothing, so a table that holds hour 5
\* only as "05" gives None.
C5_WeatherLookup ==
    /\ "WeatherCondition" \in Range(columns) =>
          \A i \in 1..Len(df) :
              /\ df[i].WeatherCondition = Recorded(weather_data, df[i].pickup_datetime.value)
              /\ \A d \in DOMAIN weather_data :
                    (/\ df[i].pickup_datetime.value.hour = 5
                     /\ DOMAIN weather_data[d] = {<<"0", "5">>})
                        => df[i].WeatherCondition = None
    /\ pc = "raised" => error # "KeyError"

C5_Witness ==
    /\ "WeatherCondition" \in Range(columns)
    /\ \E i, j \in 1..Len(df) :
          /\ df[i].hour = 5
          /\ df[i].WeatherCondition = "Snowy"
          /\ <<"0", "5">> \in DOMAIN weather_data[Date20240301]
          /\ df[j].hour = 8
          /\ df[j].WeatherCondition = None
          /\ <<"0", "8">> \in DOMAIN weather_data[Date20240301]

Logged(level) == \E k \in 1..Len(log) : log[k].level = level

LoggedMsg(msg) == \E k \in 1..Len(log) : log[k].msg = msg

\* C6: a run in which a stage failed, saving the results included, logs the
\* error and returns False without logging success; a run returns True only
\* when nothing failed.
C6_FailureIsReported ==
    pc = "done" =>
        /\ ret = TRUE <=> ~Logged("ERROR")
        /\ ret = FALSE => ~LoggedMsg("ETL pipeline completed successfully")

\* The columns of a fully transformed frame, in the order the stages of
\* the design add them.
DesignColumns ==
    SourceColumns \o
    <<"weekday", "hour", "WeatherCondition", "distance", "actual_delivery_time", "status">>

IsPrefix(a, b) == Len(a) <= Len(b) /\ SubSeq(b, 1, Len(a)) = a

\* C7: the stages run in the order time features, weather, simulation,
\* scoring; no stage reads a column that is not there yet; the statistics
\* are computed when the status is there.
C7_StageOrder ==
    /\ IsPrefix(columns, DesignColumns)
    /\ error # "KeyError"
    /\ "status" \in Range(columns) => columns = DesignColumns
    /\ \A k \in 1..Len(log) :
          log[k].msg = "Delivery Status Summary" =>
              /\ "status" \in Range(columns)
              /\ log[k].on_time + log[k].delayed = Len(df)
              /\ \A i \in 1..Len(df) : df[i].status \in Statuses

C7_Witness ==
    /\ pc = "done"
    /\ ret = TRUE
    /\ LoggedMsg("Delivery Status Summary")
    /\ columns = DesignColumns

\* The columns a stage adds.
OwnColumns ==
    ("enrich_with_weekday_and_hour" :> {"weekday", "hour"})
    @@ ("enrich_with_weather" :> {"WeatherCondition"})
    @@ ("enrich_with_random_distance_and_delivery_time" :>
            {"distance", "actual_delivery_time"})
    @@ ("enrich_with_status" :> {"status"})

\* The timestamp a cell holds is the one the text named.
SameTimestamp(before, after) ==
    \/ after = before
    \/ /\ before.dtype = "object"
       /\ after.dtype = "datetime64"
       /\ FormatDateTime(after.value) = before.value

C8_Step ==
    /\ weather_data' = weather_data
    /\ Len(df') = Len(df)
    /\ IsPrefix(columns, columns')
    /\ pc = "transform_data" =>
          Range(columns') \ Range(columns) \subseteq OwnColumns[transform_stages[stage]]
    /\ \A i \in 1..Len(df) :
          /\ df'[i].delivery_id = df[i].delivery_id
          /\ df'[i].package_type = df[i].package_type
          /\ df'[i].delivery_zone = df[i].delivery_zone
          /\ df'[i].recipient_id = df[i].recipient_id
          /\ SameTimestamp(df[i].pickup_datetime, df'[i].pickup_datetime)
          /\ \A c \in Range(columns) \ Range(SourceColumns) : df'[i][c] = df[i][c]
          /\ \A c \in Range(DesignColumns) \ Range(columns') : df'[i][c] = df[i][c]

\* Two records with the same fields have the same derived fields.
C8_OwnFieldsOnly ==
    \A i, j \in 1..Len(df) :
        /\ df[i].pickup_datetime = df[j].pickup_datetime
              => /\ df[i].weekday = df[j].weekday
                 /\ df[i].hour = df[j].hour
                 /\ df[i].WeatherCondition = df[j].WeatherCondition
        /\ (\A c \in Range(ScorerReads) : df[i][c] = df[j][c])
              => df[i].status = df[j].status

\* C8: a stage adds its own columns and nothing else: the weather table,
\* the records' source fields and the columns of the earlier stages stay as
\* they are, no record is added, removed or moved, and a record's derived
\* fields depend on its own fields and the weather table only.
C8_Frame == [][C8_Step]_vars /\ []C8_OwnFieldsOnly

C8_Witness ==
    /\ Transformed
    /\ Len(df) = 2
    /\ columns = DesignColumns
    /\ df[1].pickup_datetime = df[2].pickup_datetime
    /\ df[1].actual_delivery_time # df[2].actual_delivery_time
    /\ df[1].WeatherCondition = "Rainy"

\* C9: every delivery the run generated finds its weather: no record of a
\* run of the pipeline has a null weather condition.
C9_NoLookupMisses ==
    "WeatherCondition" \in Range(columns) =>
        \A i \in 1..Len(df) : df[i].WeatherCondition # None

=============================================================================
